---- MODULE Spec2Model ----
(***************************************************************************)
(* Model of main/run.go: the `run` command of xray-core with the config    *)
(* file watcher and the auto-restart goroutine.                            *)
(*                                                                         *)
(* Three goroutines share the process: the main goroutine (executeRun),   *)
(* the restart goroutine (run.go:110-138) and the file-watcher goroutine   *)
(* (run.go:187-207).  The engine (core.LoadConfig, core.New, Start, Close) *)
(* the file system and fsnotify are the environment: every call into them  *)
(* returns one of its possible outcomes, chosen with \E.                   *)
(***************************************************************************)
EXTENDS Integers, Sequences, FiniteSets, TLC

(* ----------------------------- bounds ---------------------------------- *)
\* file-system events the notification source produces in one run
MaxEvents == 2
\* errors the notification source reports in one run
MaxWatchErrors == 1
\* changes of the config directory's permissions in one run
MaxFsChanges == 1

(* --------------------------- program constants -------------------------- *)
\* the nil core.Server of `server` / `newServer` before a handle is built
NilServer == 0
\* os.Exit codes
ExitOK == 0
ExitConfig == 23
ExitStart == -1
\* log.Fatalln ends the process with os.Exit(1)
ExitFatal == 1
\* restartChan := make(chan struct{}): no buffer
RestartChanCap == 0

Handles == 1..(MaxEvents + 1)

VARIABLES
    dump, test,        \* the -dump and -test flags
    configFiles,       \* the package-level cmdarg.Arg the -c flags and readConfDir append to
    fs,                \* what os.Stat / os.ReadDir answer: [argDir, envDir, cwdConfig, envConfig]
    fsChanges,         \* number of file-system changes so far
    cliFiles,          \* the files the -config / -c flags named, in command-line order
    firstFiles,        \* what the first getConfigFilePath call returned (<< >> before it)
    lastFiles,         \* what the latest getConfigFilePath call returned
    alive, exitCode,   \* the process and the code it ended with
    exitErr,           \* the error the process logged as it ended ("none" without one)
    mainPc,            \* position of executeRun
    server,            \* the captured variable `server`
    mainTmp,           \* the receiver main loaded from `server` for server.Close() (line 153)
    mainErr,           \* what that Close returned
    watcher,           \* "nil" | "open" | "closed"
    watchSet,          \* the paths added to the watcher
    sigPending,        \* osSignals (buffer of 1) holds a signal
    reloadPc,          \* position of the restart goroutine
    newServer,         \* its local newServer
    swapErrs,          \* the errors the current (or last) restart logged
    lastSwap,          \* how the last restart ended: "none" | "ok" | "failed"
    watcherPc,         \* position of the watcher goroutine
    events,            \* events waiting in watcher.Events (each a set of fsnotify.Op bits)
    errPending,        \* errors waiting in watcher.Errors
    evGenerated, errGenerated,
    qualReceived,      \* write/create events the watcher goroutine received
    sent,              \* sends on restartChan that completed
    swapAttempts,      \* receives from restartChan that completed
    generation,        \* number of times `server` was replaced (line 135)
    nextHandle,        \* handles core.New has built so far
    started,           \* handles on which Start() succeeded
    closeCalls         \* per handle, the Close() calls by each goroutine

vars == << dump, test, configFiles, fs, fsChanges, cliFiles, firstFiles, lastFiles,
           alive, exitCode, exitErr, mainPc, server,
           mainTmp, mainErr, watcher, watchSet, sigPending, reloadPc, newServer,
           swapErrs, lastSwap, watcherPc, events, errPending, evGenerated,
           errGenerated, qualReceived, sent, swapAttempts, generation, nextHandle,
           started, closeCalls >>

procVars  == << alive, exitCode, exitErr >>
locVars   == << dump, test, configFiles, fs, fsChanges, cliFiles, firstFiles, lastFiles >>
mainVars  == << mainPc, mainTmp, mainErr, watcher, watchSet, sigPending >>
relVars   == << reloadPc, newServer, swapErrs, lastSwap, generation >>
watVars   == << watcherPc, events, errPending, evGenerated, errGenerated, qualReceived >>
chanVars  == << sent, swapAttempts >>
hdlVars   == << server, nextHandle, started, closeCalls >>

(* ------------------------- ConfigLocator -------------------------------- *)
File(dir, stem, ext) == [dir |-> dir, stem |-> stem, ext |-> ext]
\* the sentinel "stdin:"
StdinSentinel == File("", "stdin:", "")

\* what os.ReadDir lists in the -confdir directory and in the env directory
ArgDirListing == << File("confdir", "a", "json"), File("confdir", "b", "txt") >>
EnvDirListing == << File("envdir", "e", "jsonc") >>
CliFile == File("", "c", "json")
CwdConfigFile == File("cwd", "config", "json")
EnvConfigFile == File("env", "config", "json")

DirStates == {"absent", "listable", "unlistable"}

\* dirExists: os.Stat succeeds and IsDir
dirExists(d) == d # "absent"

\* getRegepxByFormat: ^.+\.(json|jsonc)$ on the entry's name
Matched(f) == f.stem # "" /\ f.ext \in {"json", "jsonc"}

\* variant: the directory's files replace what configFiles held
readConfDirReplaces(d, listing, cf) ==
    IF d = "unlistable"
    THEN [fatal |-> TRUE, configFiles |-> cf]
    ELSE [fatal |-> FALSE, configFiles |-> SelectSeq(listing, Matched)]

\* readConfDir: log.Fatalln when the directory cannot be listed, else
\* configFiles.Set(...) (an append) of every matching entry, in listing order
readConfDir(d, listing, cf) ==
    IF d = "unlistable"
    THEN [fatal |-> TRUE, configFiles |-> cf]
    ELSE [fatal |-> FALSE, configFiles |-> cf \o SelectSeq(listing, Matched)]

\* getConfigFilePath: [fatal, files (the returned Arg), configFiles (the global after the call)]
getConfigFilePath(f, cf) ==
    LET r == IF dirExists(f.argDir) THEN readConfDir(f.argDir, ArgDirListing, cf)
             ELSE IF dirExists(f.envDir) THEN readConfDir(f.envDir, EnvDirListing, cf)
             ELSE [fatal |-> FALSE, configFiles |-> cf]
    IN  IF r.fatal THEN [fatal |-> TRUE, files |-> << >>, configFiles |-> r.configFiles]
        ELSE IF Len(r.configFiles) > 0
             THEN [fatal |-> FALSE, files |-> r.configFiles, configFiles |-> r.configFiles]
        ELSE IF f.cwdConfig
             THEN [fatal |-> FALSE, files |-> << CwdConfigFile >>, configFiles |-> r.configFiles]
        ELSE IF f.envConfig
             THEN [fatal |-> FALSE, files |-> << EnvConfigFile >>, configFiles |-> r.configFiles]
        ELSE [fatal |-> FALSE, files |-> << StdinSentinel >>, configFiles |-> r.configFiles]

\* the file systems and flags a run starts from
FsInit ==
    { [argDir |-> a, envDir |-> "absent", cwdConfig |-> c, envConfig |-> FALSE] :
        a \in {"absent", "listable"}, c \in BOOLEAN }

(* ------------------------------ handles --------------------------------- *)
CloseCount(h) == closeCalls[h].reload + closeCalls[h].main
\* active: start() has succeeded on it and close() has not yet been called on it
Active(h) == h \in started /\ CloseCount(h) = 0
ActiveSet == { h \in Handles : Active(h) }

\* os.Exit(code)
Exit(code) == alive' = FALSE /\ exitCode' = code

\* log the error (if any), then os.Exit(code)
ExitWith(code, err) == Exit(code) /\ exitErr' = err

\* the caller's `configFiles := getConfigFilePath(...)`: the global is updated
\* and, unless log.Fatalln ended the call, the returned Arg is held
Located(r) ==
    /\ configFiles' = r.configFiles
    /\ IF r.fatal
       THEN UNCHANGED << firstFiles, lastFiles >>
       ELSE /\ lastFiles' = r.files
            /\ firstFiles' = IF firstFiles = << >> THEN r.files ELSE firstFiles

\* outcomes of startXray once the config files are located:
\* core.LoadConfig fails, core.New fails, or a fresh handle is returned
StartXrayOutcomes == {"ok", "ConfigError", "BuildError"}

(* ------------------------------- Init ----------------------------------- *)
Init ==
    /\ dump \in BOOLEAN /\ test \in BOOLEAN
    /\ configFiles \in { << >>, << CliFile >> }
    /\ cliFiles = configFiles
    /\ firstFiles = << >> /\ lastFiles = << >>
    /\ fs \in FsInit
    /\ fsChanges = 0
    /\ alive = TRUE /\ exitCode = ExitOK /\ exitErr = "none"
    /\ mainPc = "start"
    /\ server = NilServer /\ mainTmp = NilServer /\ mainErr = FALSE
    /\ watcher = "nil" /\ watchSet = {}
    /\ sigPending = FALSE
    /\ reloadPc = "none" /\ newServer = NilServer
    /\ swapErrs = {} /\ lastSwap = "none"
    /\ watcherPc = "none" /\ events = << >> /\ errPending = 0
    /\ evGenerated = 0 /\ errGenerated = 0 /\ qualReceived = 0
    /\ sent = 0 /\ swapAttempts = 0 /\ generation = 0
    /\ nextHandle = 0 /\ started = {}
    /\ closeCalls = [h \in Handles |-> [reload |-> 0, main |-> 0]]

(* ------------------------ executeRun (main goroutine) ------------------- *)
\* run.go:70-74 and dumpConfig: load and merge only, exit 23 or 0
MainDump ==
    /\ alive /\ mainPc = "start" /\ dump
    /\ LET r == getConfigFilePath(fs, configFiles) IN
        /\ Located(r)
        /\ IF r.fatal THEN ExitWith(ExitFatal, "ReadError")
           ELSE \E merged \in BOOLEAN :
                    IF merged THEN ExitWith(ExitOK, "none")
                    ELSE ExitWith(ExitConfig, "ConfigError")
    /\ mainPc' = "exited"
    /\ UNCHANGED << dump, test, fs, fsChanges, cliFiles, mainTmp, mainErr, watcher, watchSet,
                    sigPending, relVars, watVars, chanVars, hdlVars >>

\* run.go:77-82: server, err := startXray(); any error exits 23
MainStartXray ==
    /\ alive /\ mainPc = "start" /\ ~dump
    /\ LET r == getConfigFilePath(fs, configFiles) IN
        /\ Located(r)
        /\ IF r.fatal
           THEN /\ ExitWith(ExitFatal, "ReadError") /\ mainPc' = "exited"
                /\ UNCHANGED << server, nextHandle >>
           ELSE \E o \in StartXrayOutcomes :
                    IF o = "ok"
                    THEN /\ nextHandle' = nextHandle + 1
                         /\ server' = nextHandle + 1
                         /\ mainPc' = "built"
                         /\ UNCHANGED procVars
                    ELSE /\ ExitWith(ExitConfig, o) /\ mainPc' = "exited"
                         /\ UNCHANGED << server, nextHandle >>
    /\ UNCHANGED << dump, test, fs, fsChanges, cliFiles, mainTmp, mainErr, watcher, watchSet,
                    sigPending, relVars, watVars, chanVars, started, closeCalls >>

\* run.go:84-87: -test stops here with code 0
MainTest ==
    /\ alive /\ mainPc = "built" /\ test
    /\ ExitWith(ExitOK, "none") /\ mainPc' = "exited"
    /\ UNCHANGED << locVars, mainTmp, mainErr, watcher, watchSet, sigPending,
                    relVars, watVars, chanVars, hdlVars >>

\* variant: the handle is started without looking at -test
MainServerStartIgnoresTest ==
    /\ alive /\ mainPc = "built"
    /\ \E ok \in BOOLEAN :
        IF ok
        THEN /\ started' = started \cup {server}
             /\ mainPc' = "watch"
             /\ UNCHANGED procVars
        ELSE /\ ExitWith(ExitStart, "StartError") /\ mainPc' = "exited"
             /\ UNCHANGED started
    /\ UNCHANGED << locVars, mainTmp, mainErr, watcher, watchSet, sigPending,
                    relVars, watVars, chanVars, server, nextHandle, closeCalls >>

\* run.go:89-92: server.Start(); failure exits -1
MainServerStart ==
    /\ alive /\ mainPc = "built" /\ ~test
    /\ \E ok \in BOOLEAN :
        IF ok
        THEN /\ started' = started \cup {server}
             /\ mainPc' = "watch"
             /\ UNCHANGED procVars
        ELSE /\ ExitWith(ExitStart, "StartError") /\ mainPc' = "exited"
             /\ UNCHANGED started
    /\ UNCHANGED << locVars, mainTmp, mainErr, watcher, watchSet, sigPending,
                    relVars, watVars, chanVars, server, nextHandle, closeCalls >>

\* run.go:102-107 and startFileWatcher 161-210: locate the files again, create the
\* watcher (or fail and go on with watcher = nil), add every file but "stdin:"
\* (an Add that fails is logged and skipped), start the watcher goroutine
MainStartWatcher ==
    /\ alive /\ mainPc = "watch"
    /\ LET r == getConfigFilePath(fs, configFiles) IN
        /\ Located(r)
        /\ IF r.fatal
           THEN /\ ExitWith(ExitFatal, "ReadError") /\ mainPc' = "exited"
                /\ UNCHANGED << watcher, watchSet, watcherPc >>
           ELSE /\ UNCHANGED procVars
                /\ mainPc' = "spawn"
                /\ \E created \in BOOLEAN :
                    IF created
                    THEN /\ watcher' = "open"
                         /\ watcherPc' = "select"
                         /\ \E addOk \in BOOLEAN :
                              watchSet' = IF addOk
                                          THEN { r.files[i] : i \in 1..Len(r.files) }
                                                 \ { StdinSentinel }
                                          ELSE {}
                    ELSE UNCHANGED << watcher, watchSet, watcherPc >>
    /\ UNCHANGED << dump, test, fs, fsChanges, cliFiles, mainTmp, mainErr, sigPending, relVars,
                    events, errPending, evGenerated, errGenerated, qualReceived,
                    chanVars, hdlVars >>

\* run.go:110 and 141-144: the go statement, then signal.Notify
MainSpawnReload ==
    /\ alive /\ mainPc = "spawn"
    /\ reloadPc' = "wait"
    /\ mainPc' = "serve"
    /\ UNCHANGED << procVars, locVars, mainTmp, mainErr, watcher, watchSet, sigPending,
                    newServer, swapErrs, lastSwap, generation, watVars, chanVars, hdlVars >>

\* run.go:148-149: case <-osSignals
MainRecvSignal ==
    /\ alive /\ mainPc = "serve" /\ sigPending
    /\ sigPending' = FALSE
    /\ mainPc' = "closeWatcher"
    /\ UNCHANGED << procVars, locVars, mainTmp, mainErr, watcher, watchSet,
                    relVars, watVars, chanVars, hdlVars >>

\* variant: watcher.Close() without the nil check panics on a nil watcher
MainCloseWatcherNoNilCheck ==
    /\ alive /\ mainPc = "closeWatcher"
    /\ IF watcher = "nil"
       THEN /\ ExitWith(2, "panic") /\ mainPc' = "exited"
            /\ UNCHANGED watcher
       ELSE /\ watcher' = "closed" /\ mainPc' = "readServer"
            /\ UNCHANGED procVars
    /\ UNCHANGED << locVars, mainTmp, mainErr, watchSet, sigPending,
                    relVars, watVars, chanVars, hdlVars >>

\* run.go:150-152: if watcher != nil { watcher.Close() }
MainCloseWatcher ==
    /\ alive /\ mainPc = "closeWatcher"
    /\ watcher' = IF watcher = "nil" THEN "nil" ELSE "closed"
    /\ mainPc' = "readServer"
    /\ UNCHANGED << procVars, locVars, mainTmp, mainErr, watchSet, sigPending,
                    relVars, watVars, chanVars, hdlVars >>

\* run.go:153: the load of `server` for the call server.Close()
MainReadServer ==
    /\ alive /\ mainPc = "readServer"
    /\ mainTmp' = server
    /\ mainPc' = "closeServer"
    /\ UNCHANGED << procVars, locVars, mainErr, watcher, watchSet, sigPending,
                    relVars, watVars, chanVars, hdlVars >>

\* run.go:153-155: Close() on the loaded handle; its error is only logged
MainCloseServer ==
    /\ alive /\ mainPc = "closeServer"
    /\ closeCalls' = [closeCalls EXCEPT ![mainTmp].main = @ + 1]
    /\ \E err \in BOOLEAN : mainErr' = err
    /\ mainPc' = "exit"
    /\ UNCHANGED << procVars, locVars, mainTmp, watcher, watchSet, sigPending,
                    relVars, watVars, chanVars, server, nextHandle, started >>

\* run.go:156: os.Exit(0)
MainExit ==
    /\ alive /\ mainPc = "exit"
    /\ ExitWith(ExitOK, "none") /\ mainPc' = "exited"
    /\ UNCHANGED << locVars, mainTmp, mainErr, watcher, watchSet, sigPending,
                    relVars, watVars, chanVars, hdlVars >>

(* --------------------- restartChan (run.go:99) -------------------------- *)
\* signals sent and not yet received
InChan == sent - swapAttempts

\* a send on the channel can complete when the buffer has room or, with no
\* buffer, when the receiver is parked at <-restartChan and nothing is handed over yet
\* variant: restartChan made with a buffer of one
CanSendBuffered == InChan < 1 + (IF reloadPc = "wait" THEN 1 ELSE 0)

CanSend == InChan < RestartChanCap + (IF reloadPc = "wait" THEN 1 ELSE 0)

(* ---------------- the restart goroutine (run.go:110-138) ---------------- *)
\* a restart is in flight from the receive to the assignment or the `continue`
SwapInFlight == reloadPc \in {"close", "build", "start", "assign"}

\* variant: a restart is taken up only while the current handle is running
ReloadRecvOnlyWhenActive ==
    /\ alive /\ reloadPc = "wait" /\ InChan > 0
    /\ server \in started /\ closeCalls[server].reload + closeCalls[server].main = 0
    /\ swapAttempts' = swapAttempts + 1
    /\ reloadPc' = "close"
    /\ swapErrs' = {}
    /\ UNCHANGED << procVars, locVars, mainVars, newServer, lastSwap, generation,
                    watVars, sent, hdlVars >>

\* run.go:112: <-restartChan
ReloadRecv ==
    /\ alive /\ reloadPc = "wait" /\ InChan > 0
    /\ swapAttempts' = swapAttempts + 1
    /\ reloadPc' = "close"
    /\ swapErrs' = {}
    /\ UNCHANGED << procVars, locVars, mainVars, newServer, lastSwap, generation,
                    watVars, sent, hdlVars >>

\* run.go:116-118: server.Close(); its error is only logged
\* variant: the restart goroutine does not close the running server
ReloadCloseSkips ==
    /\ alive /\ reloadPc = "close"
    /\ reloadPc' = "build"
    /\ UNCHANGED << procVars, locVars, mainVars, newServer, swapErrs, lastSwap,
                    generation, watVars, chanVars, hdlVars >>

\* variant: the restart goroutine closes the handle it captured at startup
ReloadCloseStale ==
    /\ alive /\ reloadPc = "close"
    /\ closeCalls' = [closeCalls EXCEPT ![1].reload = @ + 1]
    /\ \E err \in BOOLEAN :
         swapErrs' = IF err THEN {"CloseError"} ELSE {}
    /\ reloadPc' = "build"
    /\ UNCHANGED << procVars, locVars, mainVars, newServer, lastSwap, generation,
                    watVars, chanVars, server, nextHandle, started >>

ReloadClose ==
    /\ alive /\ reloadPc = "close"
    /\ closeCalls' = [closeCalls EXCEPT ![server].reload = @ + 1]
    /\ \E err \in BOOLEAN :
         swapErrs' = IF err THEN {"CloseError"} ELSE {}
    /\ reloadPc' = "build"
    /\ UNCHANGED << procVars, locVars, mainVars, newServer, lastSwap, generation,
                    watVars, chanVars, server, nextHandle, started >>

\* run.go:121-126: newServer, err := startXray(); on error log and continue.
\* getConfigFilePath inside startXray ends the process when the config
\* directory cannot be listed (log.Fatalln in readConfDir)
ReloadBuild ==
    /\ alive /\ reloadPc = "build"
    /\ LET r == getConfigFilePath(fs, configFiles) IN
        /\ Located(r)
        /\ IF r.fatal
           THEN /\ ExitWith(ExitFatal, "ReadError")
                /\ UNCHANGED << reloadPc, newServer, swapErrs, lastSwap, nextHandle >>
           ELSE /\ UNCHANGED procVars
                /\ \E o \in StartXrayOutcomes :
                    IF o = "ok"
                    THEN /\ nextHandle' = nextHandle + 1
                         /\ newServer' = nextHandle + 1
                         /\ reloadPc' = "start"
                         /\ UNCHANGED << swapErrs, lastSwap >>
                    ELSE /\ swapErrs' = swapErrs \cup {o}
                         /\ lastSwap' = "failed"
                         /\ reloadPc' = "wait"
                         /\ UNCHANGED << newServer, nextHandle >>
    /\ UNCHANGED << dump, test, fs, fsChanges, cliFiles, mainVars, generation, watVars,
                    chanVars, server, started, closeCalls >>

\* variant: a failed Start in the restart goroutine exits like the one at startup
ReloadStartFatal ==
    /\ alive /\ reloadPc = "start"
    /\ \E ok \in BOOLEAN :
        IF ok
        THEN /\ started' = started \cup {newServer}
             /\ reloadPc' = "assign"
             /\ UNCHANGED << procVars, newServer, swapErrs, lastSwap >>
        ELSE /\ swapErrs' = swapErrs \cup {"StartError"}
             /\ ExitWith(ExitStart, "StartError")
             /\ UNCHANGED << started, reloadPc, newServer, lastSwap >>
    /\ UNCHANGED << locVars, mainVars, generation, watVars, chanVars,
                    server, nextHandle, closeCalls >>

\* run.go:128-132: newServer.Start(); on error log and continue
ReloadStart ==
    /\ alive /\ reloadPc = "start"
    /\ \E ok \in BOOLEAN :
        IF ok
        THEN /\ started' = started \cup {newServer}
             /\ reloadPc' = "assign"
             /\ UNCHANGED << newServer, swapErrs, lastSwap >>
        ELSE /\ swapErrs' = swapErrs \cup {"StartError"}
             /\ lastSwap' = "failed"
             /\ reloadPc' = "wait"
             /\ newServer' = NilServer
             /\ UNCHANGED started
    /\ UNCHANGED << procVars, locVars, mainVars, generation, watVars, chanVars,
                    server, nextHandle, closeCalls >>

\* variant: the restart reports success without replacing `server`
ReloadAssignKeepsOld ==
    /\ alive /\ reloadPc = "assign"
    /\ lastSwap' = "ok"
    /\ newServer' = NilServer
    /\ reloadPc' = "wait"
    /\ UNCHANGED << procVars, locVars, mainVars, swapErrs, generation, watVars,
                    chanVars, hdlVars >>

\* run.go:135-136: server = newServer
ReloadAssign ==
    /\ alive /\ reloadPc = "assign"
    /\ server' = newServer
    /\ generation' = generation + 1
    /\ lastSwap' = "ok"
    /\ newServer' = NilServer
    /\ reloadPc' = "wait"
    /\ UNCHANGED << procVars, locVars, mainVars, swapErrs, watVars, chanVars,
                    nextHandle, started, closeCalls >>

(* --------------- the watcher goroutine (run.go:187-207) ----------------- *)
\* fsnotify.Op sets the notification source reports
EventOps == { {"Write"}, {"Create"}, {"Remove", "Chmod"} }

\* run.go:195: event.Op&(fsnotify.Write|fsnotify.Create) != 0
Qualifies(op) == op \cap {"Write", "Create"} # {}

\* run.go:190-199: case event, ok := <-watcher.Events with ok
WatcherRecvEvent ==
    /\ alive /\ watcherPc = "select" /\ events # << >>
    /\ events' = Tail(events)
    /\ IF Qualifies(Head(events))
       THEN /\ qualReceived' = qualReceived + 1
            /\ watcherPc' = "send"
       ELSE UNCHANGED << qualReceived, watcherPc >>
    /\ UNCHANGED << procVars, locVars, mainVars, relVars, errPending, evGenerated,
                    errGenerated, chanVars, hdlVars >>

\* run.go:198: restartChan <- struct{}{} completes
RestartSend ==
    /\ alive /\ watcherPc = "send" /\ CanSend
    /\ sent' = sent + 1
    /\ watcherPc' = "select"
    /\ UNCHANGED << procVars, locVars, mainVars, relVars, events, errPending,
                    evGenerated, errGenerated, qualReceived, swapAttempts, hdlVars >>

\* run.go:200-204: case err, ok := <-watcher.Errors with ok: log only
WatcherRecvError ==
    /\ alive /\ watcherPc = "select" /\ errPending > 0
    /\ errPending' = errPending - 1
    /\ UNCHANGED << procVars, locVars, mainVars, relVars, watcherPc, events,
                    evGenerated, errGenerated, qualReceived, chanVars, hdlVars >>

\* run.go:191-193, 201-203: a closed channel (!ok) ends the goroutine
WatcherReturn ==
    /\ alive /\ watcherPc = "select" /\ watcher = "closed"
    /\ watcherPc' = "done"
    /\ UNCHANGED << procVars, locVars, mainVars, relVars, events, errPending,
                    evGenerated, errGenerated, qualReceived, chanVars, hdlVars >>

(* --------------------------- the environment ---------------------------- *)
\* fsnotify reports an event on a watched file
FsEvent ==
    /\ alive /\ watcher = "open" /\ watchSet # {}
    /\ evGenerated < MaxEvents
    /\ \E op \in EventOps : events' = Append(events, op)
    /\ evGenerated' = evGenerated + 1
    /\ UNCHANGED << procVars, locVars, mainVars, relVars, watcherPc, errPending,
                    errGenerated, qualReceived, chanVars, hdlVars >>

\* fsnotify reports an error
FsError ==
    /\ alive /\ watcher = "open"
    /\ errGenerated < MaxWatchErrors
    /\ errPending' = errPending + 1
    /\ errGenerated' = errGenerated + 1
    /\ UNCHANGED << procVars, locVars, mainVars, relVars, watcherPc, events,
                    evGenerated, qualReceived, chanVars, hdlVars >>

\* SIGINT or SIGTERM is delivered to osSignals (registered at run.go:142)
OsSignal ==
    /\ alive /\ mainPc = "serve" /\ ~sigPending
    /\ sigPending' = TRUE
    /\ UNCHANGED << procVars, locVars, mainPc, mainTmp, mainErr, watcher, watchSet,
                    relVars, watVars, chanVars, hdlVars >>

\* the permissions of the config directory change: os.ReadDir starts or stops failing
FsChange ==
    /\ alive /\ fsChanges < MaxFsChanges
    /\ dirExists(fs.argDir)
    /\ fs' = [fs EXCEPT !.argDir = IF @ = "listable" THEN "unlistable" ELSE "listable"]
    /\ fsChanges' = fsChanges + 1
    /\ UNCHANGED << procVars, dump, test, configFiles, cliFiles, firstFiles, lastFiles,
                    mainVars, relVars, watVars,
                    chanVars, hdlVars >>

(* ------------------------------ the system ------------------------------ *)
MainStep ==
    \/ MainDump \/ MainStartXray \/ MainTest \/ MainServerStart
    \/ MainStartWatcher \/ MainSpawnReload
    \/ MainRecvSignal \/ MainCloseWatcher \/ MainReadServer \/ MainCloseServer
    \/ MainExit

ReloadStep ==
    ReloadRecv \/ ReloadClose \/ ReloadBuild \/ ReloadStart \/ ReloadAssign

WatcherStep ==
    WatcherRecvEvent \/ RestartSend \/ WatcherRecvError \/ WatcherReturn

EnvStep == FsEvent \/ FsError \/ OsSignal \/ FsChange

Next == MainStep \/ ReloadStep \/ WatcherStep \/ EnvStep

Spec == Init /\ [][Next]_vars

\* the Go scheduler runs every runnable goroutine, and the calls into the
\* engine return; the environment owes nothing
FairSpec ==
    /\ Spec
    /\ WF_vars(MainStep) /\ WF_vars(ReloadStep) /\ WF_vars(WatcherStep)

(* the serving process alone: started without -dump and -test, with -c files *)
(* and a listable -confdir whose permissions stay as they are                *)
RecoverInit ==
    /\ Init
    /\ ~dump /\ ~test
    /\ configFiles = << CliFile >>
    /\ fs = [argDir |-> "listable", envDir |-> "absent",
             cwdConfig |-> FALSE, envConfig |-> FALSE]

RecoverNext ==
    \/ MainStartXray \/ MainServerStart \/ MainStartWatcher \/ MainSpawnReload
    \/ MainRecvSignal \/ MainCloseWatcher \/ MainReadServer \/ MainCloseServer
    \/ MainExit
    \/ ReloadStep \/ WatcherStep
    \/ FsEvent \/ FsError \/ OsSignal

RecoverSpec ==
    /\ RecoverInit /\ [][RecoverNext]_vars
    /\ WF_vars(MainStep) /\ WF_vars(ReloadStep) /\ WF_vars(WatcherStep)

(* ============================ properties ================================ *)
\* the termination path has taken a signal from osSignals
TermRequested ==
    \/ sigPending
    \/ mainPc \in {"closeWatcher", "readServer", "closeServer", "exit"}
    \/ mainPc = "exited" /\ reloadPc # "none"

\* the termination path has closed the watcher and returned from server.Close()
ShutdownRan == reloadPc # "none" /\ mainPc \in {"exit", "exited"}

RECURSIVE ReloadCloses(_)
ReloadCloses(n) == IF n = 0 THEN 0 ELSE closeCalls[n].reload + ReloadCloses(n - 1)

MaxStarted == CHOOSE h \in started : \A g \in started : g <= h

SwapFailures == {"ConfigError", "BuildError", "StartError"}

(* C1: in every reachable state at most one Server handle is active (started *)
(* and not yet closed), whatever the interleaving of the watcher, the        *)
(* restart goroutine and the termination path.                               *)
C1_AtMostOneActive == Cardinality(ActiveSet) <= 1

\* a restart has started its replacement while the termination path is closing
C1_Witness ==
    /\ reloadPc = "assign" /\ Active(newServer) /\ generation >= 1
    /\ mainPc = "closeServer"

(* C2: a restart is all-or-nothing: whenever a restart finishes, the handle  *)
(* in `server` is active (the new one, or the previous one still running).   *)
C2_SwapAllOrNothing ==
    [][(SwapInFlight /\ ~SwapInFlight') => Active(server)']_vars

(* C3: the termination path never loads or closes `server` while the restart *)
(* goroutine is between closing the old handle and finishing the restart.    *)
C3_NoConcurrentAccess ==
    ~(mainPc \in {"readServer", "closeServer"} /\ SwapInFlight)

(* C4: when the process exits after handling a termination signal, close()   *)
(* has been called on every handle that was started: none is active at exit. *)
C4_ShutdownClosesActive ==
    (~alive /\ mainPc = "exited" /\ reloadPc # "none") => ActiveSet = {}

(* C5: once the termination path has closed the watcher and called close()   *)
(* on the handle, the restart goroutine begins no restart and neither builds *)
(* nor starts a handle.                                                      *)
C5_NoSwapAfterShutdown ==
    [][ShutdownRan => /\ reloadPc' = reloadPc
                      /\ swapAttempts' = swapAttempts
                      /\ nextHandle' = nextHandle
                      /\ started' = started]_vars

(* C6: in every restart the old handle's close() has been called by the      *)
(* restart goroutine before the replacement is built or started; no handle   *)
(* is started while an earlier started handle is not yet closed by it.       *)
C6_CloseBeforeStart ==
    /\ reloadPc \in {"build", "start", "assign"} =>
           /\ closeCalls[server].reload >= 1
           /\ ReloadCloses(MaxEvents + 1) = swapAttempts
    /\ newServer # NilServer => reloadPc \in {"start", "assign"}
    /\ \A h \in started : h # MaxStarted => closeCalls[h].reload >= 1

\* a second restart has started its replacement
C6_Witness ==
    /\ reloadPc = "assign" /\ newServer \in started /\ generation >= 1
    /\ closeCalls[server].reload = 1

C8_ReloadErrorsNeverFatal ==
    [][(SwapInFlight /\ alive /\ ~alive') => (mainPc = "exit" /\ exitCode' = ExitOK)]_vars

(* C9: restarts are serialized: a restart begins only when none is in flight, *)
(* no signal is held in the channel while one is in flight (none is buffered, *)
(* none is dropped), and the watcher goroutine with a further qualifying      *)
(* event stays blocked in its send while the restart is in flight.            *)
C9_SwapsSerialized ==
    /\ [](/\ InChan \in {0, 1}
          /\ SwapInFlight => InChan = 0
          /\ qualReceived = sent + (IF watcherPc = "send" THEN 1 ELSE 0))
    /\ [][/\ (swapAttempts' # swapAttempts) =>
                (~SwapInFlight /\ swapAttempts' = swapAttempts + 1)
          /\ (SwapInFlight /\ watcherPc = "send") => watcherPc' = "send"]_vars

\* the watcher goroutine is blocked in its send while a restart is in flight
C9_Witness == SwapInFlight /\ watcherPc = "send" /\ alive

(* C10: with no termination request, the number of restart attempts           *)
(* eventually equals the number of write/create events the watcher received,  *)
(* and never exceeds it.                                                       *)
C10_OneSwapPerEvent ==
    /\ [](swapAttempts <= qualReceived)
    /\ <>[](TermRequested \/ swapAttempts = qualReceived)

(* C11: the generation counter (replacements of `server`) grows by exactly  *)
(* one on every successful restart and is unchanged by every failed one;     *)
(* once serving, `server` changes only on a successful restart.              *)
C11_GenerationTracksSwaps ==
    [][reloadPc # "none" =>
        /\ (reloadPc = "assign" /\ reloadPc' = "wait") =>
               /\ generation' = generation + 1
               /\ server' = newServer /\ server' # server
        /\ ((swapErrs' \ swapErrs) \cap SwapFailures # {}) =>
               /\ generation' = generation
               /\ server' = server
        /\ (server' # server \/ generation' # generation) =>
               /\ reloadPc = "assign" /\ lastSwap' = "ok"
               /\ generation' = generation + 1]_vars

\* a restart failed after an earlier one had replaced the handle
C11_Witness ==
    /\ generation = 1 /\ server = 2
    /\ lastSwap = "failed" /\ reloadPc = "wait" /\ swapAttempts = 2

(* C12: a termination request always ends the process with code 0, with the  *)
(* watcher closed before Close is called on `server`, whether or not a        *)
(* restart is in flight and whatever Close returns.                           *)
C12_TerminationExitsZero ==
    /\ TermRequested ~> ~alive
    /\ []((TermRequested /\ ~alive) => exitCode = ExitOK)
    /\ []((mainPc \in {"readServer", "closeServer", "exit"} \/ ShutdownRan)
             => watcher # "open")

(* C13: a failed initial bootstrap ends the process with 23 for a directory  *)
(* that cannot be listed or a load failure, with a nonzero code other than   *)
(* 23 for a build or start failure, and starts no watcher and no restart     *)
(* goroutine.                                                                *)
C13_BootstrapExitCodes ==
    (~alive /\ ~dump /\ reloadPc = "none" /\ exitErr # "none") =>
        /\ exitErr \in {"ReadError", "ConfigError"} => exitCode = ExitConfig
        /\ exitErr \in {"BuildError", "StartError"} =>
               (exitCode # ExitOK /\ exitCode # ExitConfig)
        /\ exitErr \in {"ConfigError", "BuildError", "StartError"} =>
               (watcher = "nil" /\ watcherPc = "none")

\* the matching entries of the -confdir directory, in listing order
ArgDirMatches == SelectSeq(ArgDirListing, Matched)

Elems(q) == { q[i] : i \in 1..Len(q) }

(* C14: with flags, environment and file system unchanged, every call of the *)
(* locator returns the same ConfigSource as the first call.                  *)
C14_LocatorIdempotent ==
    (fsChanges = 0 /\ firstFiles # << >>) => lastFiles = firstFiles

(* C15 as stated: with an existing -confdir and explicit -c files, the       *)
(* resolved ConfigSource is exactly the directory's matching files and holds *)
(* none of the -c files.                                                     *)
C15_DirectoryWins ==
    (cliFiles # << >> /\ fs.argDir = "listable" /\ fsChanges = 0 /\ lastFiles # << >>) =>
        /\ lastFiles = ArgDirMatches
        /\ Elems(lastFiles) \cap Elems(cliFiles) = {}

(* C15 amended: with an existing -confdir and explicit -c files, the         *)
(* resolved ConfigSource begins with the -c files in command-line order,     *)
(* followed by the directory's matching files in listing order (the first    *)
(* call returns exactly that), and holds nothing else.                       *)
C15_ExplicitThenDirectory ==
    (cliFiles # << >> /\ dirExists(fs.argDir) /\ lastFiles # << >>) =>
        /\ firstFiles = cliFiles \o ArgDirMatches
        /\ SubSeq(lastFiles, 1, Len(firstFiles)) = firstFiles
        /\ Elems(lastFiles) = Elems(cliFiles) \cup Elems(ArgDirMatches)

\* the locator has been called again with both kinds of source given
C15_Witness ==
    /\ cliFiles # << >> /\ fs.argDir = "listable" /\ fsChanges = 0
    /\ Len(lastFiles) > Len(firstFiles) /\ firstFiles # << >>

C17_SwapOnlyFromRunning ==
    [][(swapAttempts' # swapAttempts /\ ~TermRequested) => Active(server)]_vars

\* the watcher could not be created and the process went on
WatcherFailed ==
    /\ watcher = "nil"
    /\ \/ mainPc \in {"spawn", "serve", "closeWatcher", "readServer", "closeServer", "exit"}
       \/ mainPc = "exited" /\ reloadPc # "none"

(* C18: when the watcher cannot be created the process still serves with the *)
(* initial handle active, no restart is ever attempted, and a termination    *)
(* request closes the handle and exits 0 with the nil watcher untouched.     *)
C18_WatcherFailureNonFatal ==
    WatcherFailed =>
        /\ watcherPc = "none" /\ events = << >> /\ qualReceived = 0
        /\ swapAttempts = 0 /\ ~SwapInFlight /\ generation = 0 /\ nextHandle = 1
        /\ mainPc \in {"spawn", "serve", "closeWatcher", "readServer", "closeServer"}
               => (alive /\ Active(server))
        /\ mainPc = "exit" => (alive /\ closeCalls[server].main = 1 /\ ActiveSet = {})
        /\ mainPc = "exited" =>
               /\ ~alive /\ exitCode = ExitOK /\ exitErr = "none"
               /\ closeCalls[server].main = 1 /\ ActiveSet = {}

\* a termination request was served to the end with no watcher
C18_Witness == WatcherFailed /\ ~alive /\ exitCode = ExitOK /\ mainErr

(* C19: Close is called at most once on each handle over the whole run.      *)
C19_CloseAtMostOnce ==
    \A h \in Handles : CloseCount(h) <= 1

(* C20: after a failed restart has left no active handle, a later qualifying *)
(* event is taken up by a new restart that runs to its end, unless a         *)
(* termination request arrives or the config directory cannot be listed; and *)
(* a restart that built and started its handle leaves that handle active and *)
(* current.                                                                  *)
C20_RecoverableAfterFailure ==
    /\ \A n \in 1..MaxEvents :
          (/\ lastSwap = "failed" /\ reloadPc = "wait" /\ swapAttempts = n
           /\ ActiveSet = {} /\ watcherPc = "send" /\ alive)
          ~> \/ TermRequested
             \/ exitErr = "ReadError"
             \/ /\ swapAttempts = n + 1 /\ reloadPc = "wait"
                /\ lastSwap = "ok" => (Active(server) /\ server = nextHandle)
    /\ []((lastSwap = "ok" /\ reloadPc = "wait" /\ ~TermRequested) =>
             (alive /\ Active(server) /\ ActiveSet = {server}))

\* the restart after a failed one has succeeded
C20_Witness ==
    /\ lastSwap = "ok" /\ reloadPc = "wait" /\ generation = 1 /\ swapAttempts = 2
    /\ server = 2 /\ Active(server) /\ closeCalls[1].reload = 2

====
